---- MODULE Spec2Model ----
(***************************************************************************)
(* goviz1090: the Beast frame transport, the Mode S / ADS-B field          *)
(* decoders, the CPR resolver and the aircraft track store, as used by the *)
(* live message path App.receiveBeastData -> App.processModeS.              *)
(*                                                                         *)
(* Conventions.                                                            *)
(*  - A byte is an integer 0..255; a payload is a sequence of bytes.  Go's  *)
(*    data[i] (0-based) is B(data, i).                                      *)
(*  - Bit operations are written with \div and % on non-negative integers.  *)
(*  - float64 values (Lat, Lon) are exact rationals [n |-> num, d |-> den]  *)
(*    with d > 0: the CPR arithmetic is carried out exactly, where the Go   *)
(*    code rounds to the nearest float64 (relative error about 1e-16).      *)
(*  - Time is counted in whole seconds since an arbitrary origin (now >= 1);*)
(*    the millisecond CPR reception times are now * 1000.                   *)
(*  - A string is a sequence of one-character strings; "" is << >>.         *)
(***************************************************************************)
EXTENDS Integers, Sequences, FiniteSets, TLC

VARIABLES
    now,          \* wall clock, seconds (time.Now())
    store,        \* AircraftMap.data: ICAO -> Aircraft record
    rx,           \* the receiver goroutine: position in processModeS and its locals
    lastCleanup,  \* App.lastCleanup
    stats,        \* App statistics: msgRateAcc, sigAcc, msgRate, sigAvg, numPlanes, numVisiblePlanes
    nrx,          \* number of frames delivered to the receiver so far
    hist,         \* per ICAO: the positions appended to the trail of the track now in the store
    lastRx,       \* per ICAO: time the last DF17/18 message arrived (0: none)
    wire,         \* frame transport: the bytes still to be read from the stream
    dec,          \* frame transport: the frame decoder's state
    sent,         \* frame transport: the frame that was encoded
    probe,        \* decoder probes: the input under decode and its result
    render,       \* the write in progress on a track, and the render loop's snapshot and reads
    conn,         \* the Beast connection: App.beastConn, isConnected, running, the goroutines
    cycle         \* the statistics cycle: positions of processModeS and updateStatistics in it

vars == <<now, store, rx, lastCleanup, stats, nrx, hist, lastRx, wire, dec, sent, probe, render, conn, cycle>>

appVars == <<now, store, rx, lastCleanup, stats, nrx, hist, lastRx>>
wireVars == <<wire, dec, sent>>
sideVars == <<probe, render, conn, cycle>>

----------------------------------------------------------------------------
(* Bounds of the model *)

MaxFrames == 3
MaxTime == 32
MaxTrackFrames == 5
MaxTrackTime == 22
TrailLength == 2

----------------------------------------------------------------------------
(* Program constants *)

EscapeChar == 26
ModeAC == 49
ModeShort == 50
ModeLong == 51
DF17 == 17
DF18 == 18
DisplayTTL == 30
CPRWindowMs == 10000
CleanupIntervalS == 1
DefaultSignalLevel == 100
NL_LOOKUP_TABLE_SIZE == 90
CPRScale == 131072

----------------------------------------------------------------------------
(* Integer helpers *)

Abs(x) == IF x < 0 THEN -x ELSE x

RECURSIVE Pow2(_)
Pow2(k) == IF k = 0 THEN 1 ELSE 2 * Pow2(k - 1)

\* (x >> lo) & (2^n - 1)
Bits(x, lo, n) == (x \div Pow2(lo)) % Pow2(n)

\* Go's data[i]
B(data, i) == data[i + 1]

\* Go's a % b for b > 0: the remainder has the sign of the dividend
GoRem(a, b) == IF a >= 0 THEN a % b ELSE -((-a) % b)

----------------------------------------------------------------------------
(* Rationals standing for float64 values *)

Rat(n, d) == [n |-> n, d |-> d]
RatZero == Rat(0, 1)
RatIsZero(r) == r.n = 0
RatLt(r, k) == r.n < k * r.d
RatGt(r, k) == r.n > k * r.d
RatGe(r, k) == r.n >= k * r.d
RatSubInt(r, k) == Rat(r.n - k * r.d, r.d)

\* math.Round(|r|): half away from zero
RoundAbs(r) == (2 * Abs(r.n) + r.d) \div (2 * r.d)

\* floor(frac * 10^k / d) for 0 <= frac < d, digit by digit (no overflow)
RECURSIVE ScaledFrac(_, _, _)
ScaledFrac(frac, d, k) ==
    IF k = 0 THEN 0
    ELSE LET q == (frac * 10) \div d
             r == (frac * 10) % d
             rest == ScaledFrac(r, d, k - 1)
         IN  q * (IF k = 1 THEN 1 ELSE IF k = 2 THEN 10 ELSE IF k = 3 THEN 100
                  ELSE IF k = 4 THEN 1000 ELSE 10000) + rest

\* floor(r * 100000): r in units of 1e-5 degree
Deg5(r) == (r.n \div r.d) * 100000 + ScaledFrac(r.n % r.d, r.d, 5)

----------------------------------------------------------------------------
(* CPR resolver of the live path (package adsb, 5-argument DecodeCPRPosition) *)

nl_table ==
    << 59, 59, 59, 59, 59, 59, 59, 59, 59, 58, 58, 58, 58, 58, 57, 57,
       57, 57, 57, 57, 56, 56, 56, 56, 56, 56, 55, 55, 55, 55, 55, 54, 54, 54, 54,
       54, 53, 53, 53, 53, 52, 52, 52, 52, 51, 51, 51, 51, 50, 50, 50, 49, 49, 49,
       48, 48, 48, 47, 47, 47, 46, 46, 46, 45, 45, 44, 44, 44, 43, 43, 42, 42, 41,
       41, 41, 40, 40, 39, 39, 38, 38, 37, 37, 36, 36, 35, 35, 34, 34, 33 >>

cprModFunction(a, b) ==
    LET res == GoRem(a, b)
    IN  IF res < 0 THEN res + b ELSE res

NLLookup(r) == IF r >= NL_LOOKUP_TABLE_SIZE THEN 1 ELSE nl_table[r + 1]

cprNLFunction(lat) == NLLookup(RoundAbs(lat))

cprNFunction(lat, odd) ==
    LET nl == cprNLFunction(lat)
    IN  IF odd THEN nl - 1 ELSE nl

\* (360 / nz) * (idx + raw / 131072)  =  45 * (idx * 131072 + raw) / (nz * 16384)
ZoneValue(nz, idx, raw) == Rat(45 * (idx * CPRScale + raw), nz * 16384)

\* floor(a / 131072 + 0.5) for the integer numerator a
FloorHalf(a) == (a + 65536) \div CPRScale

Unresolved == [ok |-> FALSE, lat |-> RatZero, lon |-> RatZero]

\* lines 620-626
WrapLat(lat) == IF RatGe(lat, 270) THEN RatSubInt(lat, 360) ELSE lat

\* lines 667-669
WrapLon(lon) == IF RatGt(lon, 180) THEN RatSubInt(lon, 360) ELSE lon

\* lines 654-655 and 663-664: cprDlonFunction * (cprModFunction(m, ni) + rlon)
CPRLonZone(evenLon, oddLon, lastOdd, ni, m) ==
    WrapLon(ZoneValue(ni, cprModFunction(m, ni), IF lastOdd THEN oddLon ELSE evenLon))

\* lines 646-671, with nl = cprNLFunction(lat) and ni = cprNFunction(lat, lastOdd)
CPRLongitude(evenLon, oddLon, lastOdd, lat, nl, ni) ==
    IF ni = 0 THEN Unresolved
    ELSE [ok |-> TRUE, lat |-> lat,
          lon |-> CPRLonZone(evenLon, oddLon, lastOdd, ni,
                             FloorHalf(evenLon * (nl - 1) - oddLon * nl))]

\* fault variant: the selected latitude is not range-checked
CPRSelect_NoRange(evenLon, oddLon, lastOdd, lat) ==
    CPRLongitude(evenLon, oddLon, lastOdd, lat,
                 cprNLFunction(lat), cprNFunction(lat, lastOdd))

\* lines 639-642: the range check of the selected latitude
CPRSelect(evenLon, oddLon, lastOdd, lat) ==
    IF RatLt(lat, -90) \/ RatGt(lat, 90) THEN Unresolved
    ELSE CPRLongitude(evenLon, oddLon, lastOdd, lat,
                      cprNLFunction(lat), cprNFunction(lat, lastOdd))

\* lines 628-637: the zone check, then the latitude of the more recent report
CPRZones(evenLon, oddLon, lastOdd, lat0, lat1) ==
    IF cprNLFunction(lat0) # cprNLFunction(lat1) THEN Unresolved
    ELSE CPRSelect(evenLon, oddLon, lastOdd, IF lastOdd THEN lat1 ELSE lat0)

\* lines 616-626: the two global latitudes for latitude index j
CPRLatitudes(evenLat, evenLon, oddLat, oddLon, lastOdd, j) ==
    CPRZones(evenLon, oddLon, lastOdd,
             WrapLat(ZoneValue(60, cprModFunction(j, 60), evenLat)),
             WrapLat(ZoneValue(59, cprModFunction(j, 59), oddLat)))

DecodeCPRPosition(evenLat, evenLon, oddLat, oddLon, lastOdd) ==
    CPRLatitudes(evenLat, evenLon, oddLat, oddLon, lastOdd,
                 FloorHalf(59 * evenLat - 60 * oddLat))

----------------------------------------------------------------------------
(* Field decoders of the live path (package adsb) *)

Charset ==
    << "?", "A", "B", "C", "D", "E", "F", "G", "H", "I", "J", "K", "L", "M", "N", "O",
       "P", "Q", "R", "S", "T", "U", "V", "W", "X", "Y", "Z", "?", "?", "?", "?", "?",
       " ", "?", "?", "?", "?", "?", "?", "?", "?", "?", "?", "?", "?", "?", "?", "?",
       "0", "1", "2", "3", "4", "5", "6", "7", "8", "9", "?", "?", "?", "?", "?", "?" >>

\* the loop "i := 7; for i >= 0 && callsign[i] == ' ' { i-- }" started at index i
\* fault variant: the identifier is returned untrimmed
DecodeCallsign_Untrimmed(data) ==
    IF Len(data) < 6 THEN << >>
    ELSE LET bits1 == B(data, 0) * 65536 + B(data, 1) * 256 + B(data, 2)
             bits2 == B(data, 3) * 65536 + B(data, 4) * 256 + B(data, 5)
         IN  << Charset[Bits(bits1, 18, 6) + 1], Charset[Bits(bits1, 12, 6) + 1],
                Charset[Bits(bits1, 6, 6) + 1],  Charset[Bits(bits1, 0, 6) + 1],
                Charset[Bits(bits2, 18, 6) + 1], Charset[Bits(bits2, 12, 6) + 1],
                Charset[Bits(bits2, 6, 6) + 1],  Charset[Bits(bits2, 0, 6) + 1] >>

RECURSIVE TrimIndex(_, _)
TrimIndex(cs, i) ==
    IF i >= 0 /\ cs[i + 1] = " " THEN TrimIndex(cs, i - 1) ELSE i

DecodeCallsign(data) ==
    IF Len(data) < 6 THEN << >>
    ELSE LET bits1 == B(data, 0) * 65536 + B(data, 1) * 256 + B(data, 2)
             bits2 == B(data, 3) * 65536 + B(data, 4) * 256 + B(data, 5)
             callsign == << Charset[Bits(bits1, 18, 6) + 1], Charset[Bits(bits1, 12, 6) + 1],
                            Charset[Bits(bits1, 6, 6) + 1],  Charset[Bits(bits1, 0, 6) + 1],
                            Charset[Bits(bits2, 18, 6) + 1], Charset[Bits(bits2, 12, 6) + 1],
                            Charset[Bits(bits2, 6, 6) + 1],  Charset[Bits(bits2, 0, 6) + 1] >>
             i == TrimIndex(callsign, 7)
         IN  SubSeq(callsign, 1, i + 1)

DecodeAltitude(data) ==
    IF Len(data) < 7 THEN 0
    ELSE LET ac12Field == (B(data, 5) % 32) * 128 + (B(data, 6) \div 2)
             qBit == Bits(ac12Field, 4, 1) = 1
             n == (Bits(ac12Field, 5, 7) * 16) + (ac12Field % 16)
         IN  IF qBit THEN n * 25 - 1000 ELSE 0

\* int(math.Sqrt(x)) for x >= 0
ISqrt(x) == CHOOSE s \in 0..(x + 1) : s * s <= x /\ (s + 1) * (s + 1) > x

\* int(math.Round(math.Atan2(ew, ns) * 180 / math.Pi)) on the eight compass
\* directions, where the angle is a whole number of degrees
Atan2Deg(ew, ns) ==
    CASE ew = 0 /\ ns > 0 -> 0
      [] ew > 0 /\ ns = 0 -> 90
      [] ew = 0 /\ ns < 0 -> 180
      [] ew < 0 /\ ns = 0 -> -90
      [] ew > 0 /\ ns = ew -> 45
      [] ew > 0 /\ ns = -ew -> 135
      [] ew < 0 /\ ns = ew -> -135
      [] ew < 0 /\ ns = -ew -> -45

NoVelocity == [speed |-> 0, heading |-> 0, vertRate |-> 0, ok |-> FALSE]

\* lines 746-756: 64 ft/min units, sign bit
VertRateOf(bit, raw) ==
    IF raw # 0 THEN (IF bit THEN -(raw - 1) ELSE raw - 1) * 64 ELSE 0

\* lines 760-779: one ground-velocity component
VelComponent(sign, raw, mul) == (IF sign THEN -(raw - 1) ELSE raw - 1) * mul

\* lines 783-788
HeadingOf(speed, ewVel, nsVel) ==
    LET h == IF speed > 0 THEN Atan2Deg(ewVel, nsVel) ELSE 0
    IN  IF h < 0 THEN h + 360 ELSE h

\* lines 758-791: subtypes 1 and 2
GroundVelocity(ewVel, nsVel, vertRate) ==
    [speed |-> ISqrt(ewVel * ewVel + nsVel * nsVel),
     heading |-> HeadingOf(ISqrt(ewVel * ewVel + nsVel * nsVel), ewVel, nsVel),
     vertRate |-> vertRate, ok |-> TRUE]

\* lines 794-812: subtypes 3 and 4
AirVelocity(subtype, ewSign, ewRaw, airspeed, vertRate) ==
    [speed |-> IF airspeed # 0 THEN (airspeed - 1) * (IF subtype = 4 THEN 4 ELSE 1) ELSE 0,
     heading |-> IF ewSign THEN (ewRaw * 360) \div 1024 ELSE 0,
     vertRate |-> vertRate, ok |-> TRUE]

VelocityFields(subtype, vertRate, ewSign, ewRaw, nsSign, nsRaw) ==
    IF subtype < 1 \/ subtype > 4 THEN NoVelocity
    ELSE IF subtype = 1 \/ subtype = 2
    THEN GroundVelocity(VelComponent(ewSign, ewRaw, IF subtype = 2 THEN 4 ELSE 1),
                        VelComponent(nsSign, nsRaw, IF subtype = 2 THEN 4 ELSE 1),
                        vertRate)
    ELSE AirVelocity(subtype, ewSign, ewRaw, nsRaw, vertRate)

\* fault variant: the decoder reads the clock
DecodeVelocity_Clocked(data) ==
    IF Len(data) < 10 THEN NoVelocity
    ELSE [speed |-> 0, heading |-> 0, vertRate |-> now * 64, ok |-> TRUE]

\* lines 733-815
DecodeVelocity(data) ==
    IF Len(data) < 10 THEN NoVelocity
    ELSE VelocityFields(B(data, 4) % 8,
                        VertRateOf(Bits(B(data, 8), 3, 1) = 1,
                                   (B(data, 8) % 8) * 64 + (B(data, 9) \div 4)),
                        Bits(B(data, 5), 2, 1) = 1,
                        (B(data, 5) % 4) * 256 + B(data, 6),
                        Bits(B(data, 7), 7, 1) = 1,
                        (B(data, 7) % 128) * 8 + (B(data, 8) \div 32))

----------------------------------------------------------------------------
(* Frames and payloads offered to the receiver *)

ICAO_A == 1193046
ICAO_B == 11259375
ICAOs == {ICAO_A, ICAO_B}

IcaoBytes(icao) == << Bits(icao, 16, 8), Bits(icao, 8, 8), Bits(icao, 0, 8) >>

\* six-bit character codes of the ICAO character set
SixBit(c) == CHOOSE k \in 0..63 : Charset[k + 1] = c

\* 8 six-bit codes packed into the 6 bytes of an identification message
PackChars(c) ==
    << c[1] * 4 + (c[2] \div 16), (c[2] % 16) * 16 + (c[3] \div 4), (c[3] % 4) * 64 + c[4],
       c[5] * 4 + (c[6] \div 16), (c[6] % 16) * 16 + (c[7] \div 4), (c[7] % 4) * 64 + c[8] >>

\* DF17/18 extended squitter: byte 0 = DF and CA, bytes 1-3 = ICAO, bytes 4-10 = ME, 11-13 = parity
Squitter(df, icao, me) == << df * 8 + 5 >> \o IcaoBytes(icao) \o me \o << 0, 0, 0 >>

IdentPayload(df, icao, tc, text) ==
    Squitter(df, icao, << tc * 8 >> \o PackChars([i \in 1..8 |-> SixBit(text[i])]))

\* airborne position: ME = TC(5) SS(2) SAF(1) | AC12 | T(1) F(1) | LAT(17) | LON(17)
PosPayload(df, icao, tc, ac12, odd, rawLat, rawLon) ==
    Squitter(df, icao,
        << tc * 8,
           ac12 \div 16,
           (ac12 % 16) * 16 + (IF odd THEN 4 ELSE 0) + Bits(rawLat, 15, 2),
           Bits(rawLat, 7, 8),
           (rawLat % 128) * 2 + Bits(rawLon, 16, 1),
           Bits(rawLon, 8, 8),
           rawLon % 256 >>)

\* airborne velocity, subtypes 1-4
VelPayload(icao, subtype, ewSign, ewRaw, nsSign, nsRaw, vrSign, vrRaw) ==
    Squitter(DF17, icao,
        << 19 * 8 + subtype,
           ewSign * 4 + Bits(ewRaw, 8, 2),
           ewRaw % 256,
           nsSign * 128 + Bits(nsRaw, 3, 7),
           (nsRaw % 8) * 32 + vrSign * 8 + Bits(vrRaw, 6, 3),
           (vrRaw % 64) * 4,
           0 >>)

\* the 12-bit altitude field with the Q-bit set carrying the 11-bit value n
AC12Q(n) == (n \div 16) * 32 + 16 + (n % 16)

Long(data) == [kind |-> ModeLong, ts |-> [hi |-> 0, lo |-> 1], sig |-> 200, data |-> data]

KLM1023 == << "K", "L", "M", "1", "0", "2", "3", " " >>
Blank8 == << " ", " ", " ", " ", " ", " ", " ", " " >>

F_Ident(icao) == Long(IdentPayload(DF17, icao, 4, KLM1023))
F_IdentBlank(icao) == Long(IdentPayload(DF18, icao, 1, Blank8))
F_Even(icao) == Long(PosPayload(DF17, icao, 11, AC12Q(100), FALSE, 93000, 51372))
F_Odd(icao) == Long(PosPayload(DF17, icao, 11, AC12Q(1560), TRUE, 74158, 50194))
F_OddFar(icao) == Long(PosPayload(DF18, icao, 9, 0, TRUE, 0, 0))
\* an even report whose global latitude falls in another table zone than F_Odd's
F_EvenZone(icao) == Long(PosPayload(DF17, icao, 11, 0, FALSE, 98304, 51372))
F_Vel(icao) == Long(VelPayload(icao, 1, 0, 301, 0, 301, 1, 11))
\* an airborne position whose altitude field has the Q-bit clear (Gillham coded)
F_Gillham(icao) == Long(PosPayload(DF17, icao, 11, 2, FALSE, 93000, 51372))
F_Surface(icao) == Long(PosPayload(DF17, icao, 5, 0, FALSE, 93000, 51372))
\* an even and an odd report of one position on the Greenwich meridian
F_EvenMeridian(icao) == Long(PosPayload(DF17, icao, 11, AC12Q(100), FALSE, 93000, 0))
F_OddMeridian(icao) == Long(PosPayload(DF17, icao, 11, AC12Q(100), TRUE, 74158, 0))
F_DF20(icao) == Long(<< 20 * 8 >> \o IcaoBytes(icao) \o << 0, 0, 0, 0, 0, 0, 0, 0, 0, 0 >>)
F_Short(icao) ==
    [kind |-> ModeShort, ts |-> [hi |-> 0, lo |-> 1], sig |-> 200,
     data |-> << 11 * 8 + 5 >> \o IcaoBytes(icao) \o << 0, 0, 0 >>]
F_AC == [kind |-> ModeAC, ts |-> [hi |-> 0, lo |-> 1], sig |-> 200, data |-> << 136, 0 >>]

\* the frames offered in Spec: two aircraft, every frame kind
Frames ==
    { F_Even(ICAO_A), F_Odd(ICAO_A), F_DF20(ICAO_A), F_Short(ICAO_A),
      F_AC, F_Ident(ICAO_B) }

\* the frames offered in SpecTrack: every DF17/18 message type, one aircraft
TrackFrames ==
    { F_Even(ICAO_A), F_Odd(ICAO_A), F_OddFar(ICAO_A), F_EvenZone(ICAO_A), F_Vel(ICAO_A),
      F_Ident(ICAO_A), F_IdentBlank(ICAO_A), F_Surface(ICAO_A) }

----------------------------------------------------------------------------
(* The aircraft track store (package adsb, AircraftMap) *)

NewAircraft(icao, t) ==
    [ ICAO |-> icao, Flight |-> << >>, Altitude |-> 0, Speed |-> 0, Heading |-> 0,
      VertRate |-> 0, Lat |-> RatZero, Lon |-> RatZero, Seen |-> t, SeenLatLon |-> 0,
      OnGround |-> FALSE, SignalLevel |-> [i \in 0..7 |-> 0],
      EvenCPRLat |-> 0, EvenCPRLon |-> 0, OddCPRLat |-> 0, OddCPRLon |-> 0,
      EvenCPRTime |-> 0, OddCPRTime |-> 0, Trail |-> << >>, Messages |-> 0 ]

EmptyStore == [i \in {} |-> NewAircraft(i, 0)]

\* fault variant: the lookup also sweeps the stale tracks out of the map
GetOrCreate_Sweeps(st, icao, t) ==
    [i \in {j \in DOMAIN st : t - st[j].Seen <= DisplayTTL} \cup {icao} |->
        IF i \in DOMAIN st /\ t - st[i].Seen <= DisplayTTL THEN st[i]
        ELSE NewAircraft(icao, t)]

\* fault variant: the track is re-initialised on every call
GetOrCreate_Reset(st, icao, t) ==
    [i \in DOMAIN st \cup {icao} |-> IF i = icao THEN NewAircraft(icao, t) ELSE st[i]]

GetOrCreate(st, icao, t) ==
    IF icao \in DOMAIN st THEN st
    ELSE [i \in DOMAIN st \cup {icao} |-> IF i = icao THEN NewAircraft(icao, t) ELSE st[i]]

\* fault variant: a track exactly ttl old is removed too
RemoveStale_AtTTL(st, ttl, t) ==
    [i \in {k \in DOMAIN st : ~(t - st[k].Seen >= ttl)} |-> st[i]]

\* fault variant: the sweep removes nothing
RemoveStale_Keep(st, ttl, t) == st

RemoveStale(st, ttl, t) ==
    [i \in {k \in DOMAIN st : ~(t - st[k].Seen > ttl)} |-> st[i]]

----------------------------------------------------------------------------
(* App.processModeS *)

DFOf(data) == B(data, 0) \div 8
IcaoOf(data) == B(data, 1) * 65536 + B(data, 2) * 256 + B(data, 3)

\* fault variant: the downlink-format filter is missing
Accepted_AnyDF(f) ==
    /\ f.kind = ModeLong
    /\ Len(f.data) >= 4

\* the frame passes the filters of receiveBeastData and processModeS
Accepted(f) ==
    /\ f.kind = ModeLong
    /\ Len(f.data) >= 4
    /\ DFOf(f.data) \in {DF17, DF18}

NotCalled == [called |-> FALSE, ok |-> FALSE, lat |-> RatZero, lon |-> RatZero]

\* the outcome r of a call of DecodeCPRPosition
Called(r) == [called |-> TRUE, ok |-> r.ok, lat |-> r.lat, lon |-> r.lon]

\* lines 178-192: extract the raw CPR values and store them under the message's parity
StoreCPR(ac, data, t) ==
    LET cprLat == (B(data, 6) % 4) * 32768 + B(data, 7) * 128 + (B(data, 8) \div 2)
        cprLon == (B(data, 8) % 2) * 65536 + B(data, 9) * 256 + B(data, 10)
        odd == Bits(B(data, 6), 2, 1) = 1
    IN  IF odd
        THEN [ac EXCEPT !.OddCPRLat = cprLat, !.OddCPRLon = cprLon, !.OddCPRTime = t * 1000]
        ELSE [ac EXCEPT !.EvenCPRLat = cprLat, !.EvenCPRLon = cprLon, !.EvenCPRTime = t * 1000]

\* fault variant: the pairing window is not tested
ResolveCPR_NoWindow(ac, odd) ==
    IF ac.EvenCPRTime > 0 /\ ac.OddCPRTime > 0
    THEN Called(DecodeCPRPosition(ac.EvenCPRLat, ac.EvenCPRLon, ac.OddCPRLat, ac.OddCPRLon, odd))
    ELSE NotCalled

\* lines 194-198: the resolve attempt
ResolveCPR(ac, odd) ==
    IF ac.EvenCPRTime > 0 /\ ac.OddCPRTime > 0
       /\ Abs(ac.EvenCPRTime - ac.OddCPRTime) <= CPRWindowMs
    THEN Called(DecodeCPRPosition(ac.EvenCPRLat, ac.EvenCPRLon, ac.OddCPRLat, ac.OddCPRLon, odd))
    ELSE NotCalled

\* fault variant: the oldest entry is never dropped
AddToTrail_NoDrop(trail, pos) == trail \o << pos >>

\* line 206: the slice expression Trail[1:] of an empty trail is out of range
TrailPanics(trail, n) == Len(trail) >= n /\ Len(trail) = 0

\* lines 204-215 with a.config.TrailLength = n
TrailUpdate(trail, pos, n) ==
    (IF Len(trail) >= n THEN Tail(trail) ELSE trail) \o << pos >>

\* lines 204-215
AddToTrail(trail, pos) == TrailUpdate(trail, pos, TrailLength)

\* lines 199-216: a resolved position is applied
ApplyPosition(ac, r, t) ==
    [ac EXCEPT !.Lat = r.lat, !.Lon = r.lon, !.SeenLatLon = t,
               !.Trail = AddToTrail(ac.Trail,
                            [Lat |-> r.lat, Lon |-> r.lon, Altitude |-> ac.Altitude,
                             Heading |-> ac.Heading, Timestamp |-> t])]

\* lines 173-176: altitude 0 means no data
SetAltitude(ac, alt) == IF alt # 0 THEN [ac EXCEPT !.Altitude = alt] ELSE ac

\* fault variant: the position is written whatever the resolver returned
Resolved_Always(ac, r, t) == [ac |-> ApplyPosition(ac, r, t), res |-> r]

\* lines 199-217: the outcome r of the resolve attempt on the track
Resolved(ac, r, t) == [ac |-> IF r.ok THEN ApplyPosition(ac, r, t) ELSE ac, res |-> r]

\* lines 194-218, after the raw CPR values have been stored
ResolveStored(ac, data, t) == Resolved(ac, ResolveCPR(ac, Bits(B(data, 6), 2, 1) = 1), t)

\* lines 171-218: airborne position
AirbornePosition(ac, data, t) ==
    ResolveStored(StoreCPR(SetAltitude(ac, DecodeAltitude(data)), data, t), data, t)

\* lines 166-169: an empty callsign is not stored
SetFlight(ac, callsign) == IF callsign # << >> THEN [ac EXCEPT !.Flight = callsign] ELSE ac

\* fault variant: a velocity message resets the position
SetVelocity_ClearsPosition(ac, v) ==
    IF v.ok
    THEN [ac EXCEPT !.Speed = v.speed, !.Heading = v.heading, !.VertRate = v.vertRate,
                    !.Lat = RatZero, !.Lon = RatZero]
    ELSE ac

\* lines 221-226
SetVelocity(ac, v) ==
    IF v.ok
    THEN [ac EXCEPT !.Speed = v.speed, !.Heading = v.heading, !.VertRate = v.vertRate]
    ELSE ac

\* metype := data[4] >> 3
METype(data) == B(data, 4) \div 8

\* lines 160-228: the dispatch on the extended squitter type code
TypeFields(ac, data, t) ==
    IF Len(data) < 5 THEN [ac |-> ac, res |-> NotCalled]
    ELSE IF METype(data) >= 1 /\ METype(data) <= 4
    THEN [ac |-> SetFlight(ac, DecodeCallsign(SubSeq(data, 6, 11))), res |-> NotCalled]
    ELSE IF METype(data) >= 9 /\ METype(data) <= 18
    THEN AirbornePosition(ac, data, t)
    ELSE IF METype(data) = 19
    THEN [ac |-> SetVelocity(ac, DecodeVelocity(data)), res |-> NotCalled]
    ELSE [ac |-> ac, res |-> NotCalled]

\* lines 230-233
Touch(ac, t) ==
    [ac EXCEPT !.Seen = t,
               !.SignalLevel = [ac.SignalLevel EXCEPT ![ac.Messages % 8] = DefaultSignalLevel],
               !.Messages = ac.Messages + 1]

\* lines 230-233 on the outcome u of the dispatch
Touched(u, t) == [ac |-> Touch(u.ac, t), res |-> u.res]

\* lines 160-233: everything processModeS does to the track it got from GetOrCreate
UpdateAircraft(ac, data, t) == Touched(TypeFields(ac, data, t), t)

\* the payload makes processModeS fail at run time: data[5:11] (line 165) and
\* data[6] .. data[10] (lines 179-180) lie outside a payload of fewer than 11
\* bytes (the payload is a slice whose capacity is its length)
Panics(data) ==
    /\ Len(data) >= 5
    /\ Len(data) < 11
    /\ (METype(data) \in 1..4 \/ METype(data) \in 9..18)

\* lines 235-237
CountMessage(st) ==
    [st EXCEPT !.msgRateAcc = st.msgRateAcc + 1, !.sigAcc = st.sigAcc + DefaultSignalLevel]

----------------------------------------------------------------------------
(* App.updateStatistics *)

RECURSIVE SumRing(_, _)
SumRing(ring, i) == IF i > 7 THEN 0 ELSE ring[i] + SumRing(ring, i + 1)

RECURSIVE SumRings(_, _)
SumRings(st, S) ==
    IF S = {} THEN 0
    ELSE LET i == CHOOSE k \in S : TRUE
         IN  SumRing(st[i].SignalLevel, 0) + SumRings(st, S \ {i})

updateStatistics(s, st) ==
    LET numTotal == Cardinality(DOMAIN st)
        numVisible == Cardinality({i \in DOMAIN st :
                                     ~RatIsZero(st[i].Lat) /\ ~RatIsZero(st[i].Lon)})
        acc == s.sigAcc + SumRings(st, DOMAIN st)
    IN  [ numVisiblePlanes |-> numVisible,
          numPlanes |-> numTotal,
          sigAvg |-> IF numTotal > 0 THEN Rat(acc, numTotal * 8) ELSE RatZero,
          sigAcc |-> 0,
          msgRate |-> s.msgRateAcc,
          msgRateAcc |-> 0 ]

----------------------------------------------------------------------------
(* The application: receiver goroutine, main-loop cleanup tick, clock *)

TickSteps == {10, 21}
TrackTickSteps == {10, 11}

NoFrame == [kind |-> 0, ts |-> [hi |-> 0, lo |-> 0], sig |-> 0, data |-> << >>]

RxIdle(f, r, hit) == [pc |-> "idle", frame |-> f, orphan |-> << >>, res |-> r, hit |-> hit]

ZeroStats ==
    [ numVisiblePlanes |-> 0, numPlanes |-> 0, sigAvg |-> RatZero, sigAcc |-> 0,
      msgRate |-> 0, msgRateAcc |-> 0 ]

WireIdle ==
    /\ wire = << >>
    /\ dec = [state |-> "off"]
    /\ sent = NoFrame

ProbeIdle == probe = [kind |-> "none"]

\* no write in progress, no frame being rendered; seen holds the values the
\* position fields of each track had between two messages
NoRender == [w |-> 0, to |-> << >>, pc |-> "idle", snap |-> {}, obs |-> << >>,
             seen |-> [i \in ICAOs |-> {}]]

MaxAttempts == 2
MaxConnMsgs == 1

Attempts == 1..MaxAttempts

\* app.New: not running, not connected, beastConn nil (0); no connection has
\* been dialled (open), no stream has failed, no connectToBeast goroutine (g)
\* has been started.  Attempt k dials connection k; d is the connection its
\* receiver's decoder reads, got and applied count the messages the decoder
\* delivered and processModeS applied.
NoConn ==
    [ running |-> FALSE, stopped |-> FALSE, isConnected |-> FALSE, beastConn |-> 0,
      open |-> [c \in Attempts |-> "none"], failed |-> {},
      g |-> [k \in Attempts |-> [pc |-> "off", d |-> 0, got |-> 0, applied |-> 0]] ]


\* no accumulator access in progress: rpc and reg are the receiver's position
\* in msgRateAcc++ and the value it loaded, mpc the main loop's position in
\* updateStatistics; counted, cycles and reported count the increments
\* completed, the cycles completed and the sum of the rates they reported
NoCycle ==
    [rpc |-> "idle", reg |-> 0, mpc |-> "idle", counted |-> 0, cycles |-> 0, reported |-> 0]

\* app.New: an empty store, nothing received, lastCleanup = time.Now()
InitApp ==
    /\ now = 1
    /\ store = EmptyStore
    /\ rx = RxIdle(NoFrame, NotCalled, FALSE)
    /\ lastCleanup = 1
    /\ stats = ZeroStats
    /\ nrx = 0
    /\ hist = [i \in ICAOs |-> << >>]
    /\ lastRx = [i \in ICAOs |-> 0]

Init == InitApp /\ WireIdle /\ ProbeIdle /\ render = NoRender /\ conn = NoConn /\ cycle = NoCycle

\* receiveBeastData lines 124-127 and processModeS lines 132-158: a frame is
\* delivered by the decoder; a long frame with DF17/18 reaches GetOrCreate
RxReceive(f, limit) ==
    /\ rx.pc = "idle"
    /\ nrx < limit
    /\ nrx' = nrx + 1
    /\ IF Accepted(f)
       THEN LET icao == IcaoOf(f.data)
            IN  /\ store' = GetOrCreate(store, icao, now)
                /\ rx' = [pc |-> "got", frame |-> f, orphan |-> << >>,
                          res |-> NotCalled, hit |-> FALSE]
                /\ hist' = IF icao \in DOMAIN store THEN hist ELSE [hist EXCEPT ![icao] = << >>]
                /\ lastRx' = [lastRx EXCEPT ![icao] = now]
       ELSE /\ rx' = RxIdle(f, NotCalled, FALSE)
            /\ UNCHANGED <<store, hist, lastRx>>
    /\ UNCHANGED <<now, lastCleanup, stats, wireVars, sideVars>>

\* the outcome u of the update is written to the track: the one in the store
\* (attached), or an object a sweep has already deleted from the map
RxWrite(icao, attached, u) ==
    /\ store' = IF attached THEN [store EXCEPT ![icao] = u.ac] ELSE store
    /\ hist' = IF attached /\ u.res.ok
               THEN [hist EXCEPT ![icao] = Append(@, [Lat |-> u.res.lat, Lon |-> u.res.lon,
                                                      Timestamp |-> now])]
               ELSE hist
    /\ rx' = RxIdle(rx.frame, u.res, attached)

\* processModeS lines 160-238, on the track GetOrCreate returned: the track in
\* the store, or the same object after a sweep has deleted it from the map
RxApply ==
    /\ rx.pc = "got"
    /\ ~Panics(rx.frame.data)
    /\ RxWrite(IcaoOf(rx.frame.data), rx.orphan = << >>,
               UpdateAircraft(IF rx.orphan = << >> THEN store[IcaoOf(rx.frame.data)]
                              ELSE rx.orphan[1],
                              rx.frame.data, now))
    /\ stats' = CountMessage(stats)
    /\ UNCHANGED <<now, lastCleanup, nrx, lastRx, wireVars, sideVars>>

\* processModeS fails with an index or slice bounds error: the goroutine
\* panics, nothing recovers it, and no further frame is received; in the
\* position branch the altitude (lines 172-176) is set before the CPR bytes
\* are read
RxPanic ==
    /\ rx.pc = "got"
    /\ Panics(rx.frame.data)
    /\ store' = IF rx.orphan = << >>
                   /\ METype(rx.frame.data) \in 9..18
                THEN [store EXCEPT ![IcaoOf(rx.frame.data)] =
                                       SetAltitude(@, DecodeAltitude(rx.frame.data))]
                ELSE store
    /\ rx' = [rx EXCEPT !.pc = "panic"]
    /\ UNCHANGED <<now, lastCleanup, stats, nrx, hist, lastRx, wireVars, sideVars>>

\* App.cleanupStaleAircraft: the sweep runs at most once per second
cleanupStaleAircraft(st, lc, t) ==
    IF t - lc < CleanupIntervalS
    THEN [store |-> st, lastCleanup |-> lc]
    ELSE [store |-> RemoveStale(st, DisplayTTL, t), lastCleanup |-> t]

\* App.Run lines 322-324: cleanupStaleAircraft, then updateStatistics
CleanupTick ==
    /\ LET c == cleanupStaleAircraft(store, lastCleanup, now)
       IN  /\ store' = c.store
           /\ lastCleanup' = c.lastCleanup
           /\ stats' = updateStatistics(stats, c.store)
           /\ hist' = [i \in ICAOs |-> IF i \in DOMAIN c.store THEN hist[i] ELSE << >>]
           /\ rx' = IF rx.pc = "got" /\ rx.orphan = << >>
                       /\ IcaoOf(rx.frame.data) \notin DOMAIN c.store
                    THEN [rx EXCEPT !.orphan = << store[IcaoOf(rx.frame.data)] >>]
                    ELSE rx
    /\ UNCHANGED <<now, nrx, lastRx, wireVars, sideVars>>

\* time passes
Advance(steps, limit) ==
    /\ \E d \in steps :
          /\ now + d <= limit
          /\ now' = now + d
    /\ UNCHANGED <<store, rx, lastCleanup, stats, nrx, hist, lastRx, wireVars, sideVars>>

Receive == \E f \in Frames : RxReceive(f, MaxFrames)

Tick == Advance(TickSteps, MaxTime)

Next == Receive \/ RxApply \/ CleanupTick \/ Tick

\* the application: two aircraft, all frame kinds, eviction
Spec == Init /\ [][Next]_vars

ReceiveTrack == \E f \in TrackFrames : RxReceive(f, MaxTrackFrames)

TickTrack == Advance(TrackTickSteps, MaxTrackTime)

NextTrack == ReceiveTrack \/ RxApply \/ TickTrack

\* one aircraft followed over a longer run of DF17/18 messages
SpecTrack == Init /\ [][NextTrack]_vars

MaxStatusFrames == 3

StatusFrames == { F_EvenMeridian(ICAO_A), F_OddMeridian(ICAO_A), F_Ident(ICAO_B) }

NextStatus ==
    (\E f \in StatusFrames : RxReceive(f, MaxStatusFrames)) \/ RxApply \/ CleanupTick \/ Tick

\* the status counts of the main loop while positions on the meridian arrive
SpecStatus == Init /\ [][NextStatus]_vars

MaxCadenceFrames == 2

CadenceFrames == { F_Ident(ICAO_A), F_Ident(ICAO_B) }

NextCadence ==
    (\E f \in CadenceFrames : RxReceive(f, MaxCadenceFrames)) \/ RxApply \/ CleanupTick \/ Tick

\* the main loop keeps running: its select takes the cleanup ticker's case
\* whenever a tick is pending (App.Run lines 313-324)
SpecCadence == Init /\ [][NextCadence]_vars /\ WF_vars(CleanupTick)

MaxStatMsgs == 3
MaxCycles == 2

\* processModeS line 236, first half: msgRateAcc is loaded
CountLoad ==
    /\ cycle.rpc = "idle"
    /\ cycle.counted < MaxStatMsgs
    /\ cycle' = [cycle EXCEPT !.rpc = "loaded", !.reg = stats.msgRateAcc]
    /\ UNCHANGED <<appVars, wireVars, probe, render, conn>>

\* processModeS lines 236-237: the incremented value is stored, the signal
\* level added
CountStore ==
    /\ cycle.rpc = "loaded"
    /\ cycle' = [cycle EXCEPT !.rpc = "idle", !.counted = @ + 1]
    /\ stats' = [stats EXCEPT !.msgRateAcc = cycle.reg + 1,
                              !.sigAcc = @ + DefaultSignalLevel]
    /\ UNCHANGED <<now, store, rx, lastCleanup, nrx, hist, lastRx, wireVars, probe, render, conn>>

\* updateStatistics lines 255-284: up to msgRate = msgRateAcc
StatsReport ==
    /\ cycle.mpc = "idle"
    /\ cycle.cycles < MaxCycles
    /\ cycle' = [cycle EXCEPT !.mpc = "reported"]
    /\ stats' = [updateStatistics(stats, store) EXCEPT !.msgRateAcc = stats.msgRateAcc]
    /\ UNCHANGED <<now, store, rx, lastCleanup, nrx, hist, lastRx, wireVars, probe, render, conn>>

\* updateStatistics line 285: msgRateAcc = 0
StatsReset ==
    /\ cycle.mpc = "reported"
    /\ cycle' = [cycle EXCEPT !.mpc = "idle", !.cycles = @ + 1,
                              !.reported = @ + stats.msgRate]
    /\ stats' = [stats EXCEPT !.msgRateAcc = 0]
    /\ UNCHANGED <<now, store, rx, lastCleanup, nrx, hist, lastRx, wireVars, probe, render, conn>>

NextStats == CountLoad \/ CountStore \/ StatsReport \/ StatsReset

\* the receiver counting messages against the main loop's statistics cycle
SpecStats == Init /\ [][NextStats]_vars

MaxPayloadFrames == 2

\* identification, position and velocity payloads cut to every length from 4
\* to 14 bytes, and a Gillham-coded position
PayloadFrames ==
    { [f EXCEPT !.data = SubSeq(f.data, 1, n)] :
         f \in { F_Ident(ICAO_A), F_Even(ICAO_A), F_Vel(ICAO_A) }, n \in 4..14 }
    \cup { F_Gillham(ICAO_A) }

NextPayload == (\E f \in PayloadFrames : RxReceive(f, MaxPayloadFrames)) \/ RxApply \/ RxPanic

\* processModeS on payloads of any length
SpecPayload == Init /\ [][NextPayload]_vars

----------------------------------------------------------------------------
(* The Beast frame transport: the encoder of the data generator, and the    *)
(* frame decoder (package beast) the receiver reads frames from            *)

\* byte i (5 = most significant) of the 48-bit timestamp, kept as two 24-bit halves
TsByte(ts, i) == IF i >= 3 THEN Bits(ts.hi, 8 * (i - 3), 8) ELSE Bits(ts.lo, 8 * i, 8)

\* append b, doubled when it is the escape byte
Escaped(b) == IF b = EscapeChar THEN << b, b >> ELSE << b >>

RECURSIVE EscapeAll(_)
EscapeAll(bytes) ==
    IF bytes = << >> THEN << >> ELSE Escaped(Head(bytes)) \o EscapeAll(Tail(bytes))

\* fault variant: the signal level is written without escaping
encodeBeastMessage_RawSignal(msgType, data, timestamp, signalLevel) ==
    << EscapeChar, msgType >>
        \o EscapeAll([k \in 1..6 |-> TsByte(timestamp, 6 - k)])
        \o << signalLevel >>
        \o EscapeAll(data)

encodeBeastMessage(msgType, data, timestamp, signalLevel) ==
    << EscapeChar, msgType >>
        \o EscapeAll([k \in 1..6 |-> TsByte(timestamp, 6 - k)])
        \o Escaped(signalLevel)
        \o EscapeAll(data)

\* payload length fixed by the frame kind
PayloadLen(kind) ==
    IF kind = ModeAC THEN 2 ELSE IF kind = ModeShort THEN 7 ELSE 14

DecStart == [state |-> "sync", kind |-> 0, buf |-> << >>, out |-> << >>]

\* the frame held in the decoder's buffer: 6 timestamp bytes, signal level, payload
FrameOf(kind, buf) ==
    [ kind |-> kind,
      ts |-> [hi |-> buf[1] * 65536 + buf[2] * 256 + buf[3],
              lo |-> buf[4] * 65536 + buf[5] * 256 + buf[6]],
      sig |-> buf[7],
      data |-> SubSeq(buf, 8, Len(buf)) ]

\* one unescaped byte b of the frame body has been read
Collect(d, b) ==
    LET buf == Append(d.buf, b)
    IN  IF Len(buf) = 7 + PayloadLen(d.kind)
        THEN [state |-> "sync", kind |-> 0, buf |-> << >>,
              out |-> Append(d.out, FrameOf(d.kind, buf))]
        ELSE [d EXCEPT !.state = "body", !.buf = buf]

\* the decoder reads the next byte of the stream, or meets its end
DecodeByte(d, w) ==
    IF w = << >>
    THEN [d EXCEPT !.state = IF d.state = "sync" THEN "eof" ELSE "error"]
    ELSE LET b == Head(w)
         IN  CASE d.state = "sync" ->
                    IF b = EscapeChar THEN [d EXCEPT !.state = "kind"] ELSE d
               [] d.state = "kind" ->
                    IF b \in {ModeAC, ModeShort, ModeLong}
                    THEN [d EXCEPT !.state = "body", !.kind = b, !.buf = << >>]
                    ELSE [d EXCEPT !.state = "sync"]
               [] d.state = "body" ->
                    IF b = EscapeChar THEN [d EXCEPT !.state = "esc"] ELSE Collect(d, b)
               [] d.state = "esc" ->
                    IF b = EscapeChar THEN Collect(d, b)
                    ELSE IF b \in {ModeAC, ModeShort, ModeLong}
                    THEN [d EXCEPT !.state = "body", !.kind = b, !.buf = << >>]
                    ELSE [d EXCEPT !.state = "sync", !.buf = << >>]

\* payloads of length n filled with f, the escape byte at the positions S
Payloads(n) ==
    { [i \in 1..n |-> IF i \in S THEN EscapeChar ELSE f] :
        S \in SUBSET {1, 2, n}, f \in {0, ModeLong, EscapeChar} }

WireFrames ==
    UNION { { [kind |-> k, ts |-> [hi |-> h, lo |-> l], sig |-> g, data |-> p] :
                h \in {0, 1710618, 6707}, l \in {1, 1703962},
                g \in {EscapeChar, 200}, p \in Payloads(PayloadLen(k)) } :
            k \in {ModeAC, ModeShort, ModeLong} }

\* the generator writes one encoded frame to the connection
Send ==
    /\ dec.state = "off"
    /\ \E f \in WireFrames :
          /\ sent' = f
          /\ wire' = encodeBeastMessage(f.kind, f.data, f.ts, f.sig)
    /\ dec' = DecStart
    /\ UNCHANGED <<appVars, sideVars>>

\* Decoder.ReadMessage consumes the stream byte by byte
DecStep ==
    /\ dec.state \in {"sync", "kind", "body", "esc"}
    /\ dec' = DecodeByte(dec, wire)
    /\ wire' = IF wire = << >> THEN wire ELSE Tail(wire)
    /\ UNCHANGED <<appVars, sent, sideVars>>

NextWire == Send \/ DecStep

\* one frame encoded by the generator and read back by the frame decoder
SpecWire == Init /\ [][NextWire]_vars

----------------------------------------------------------------------------
(* Decoder probes: a field decoder applied to one input *)

KLMCodes == [i \in 1..8 |-> SixBit(KLM1023[i])]

\* identification fields: per character the code of "KLM1023 ", a space or code 0
CallsignFields ==
    { PackChars(c) : c \in [1..8 -> {0, 32, 63}] \cup { [i \in 1..8 |-> IF i \in S THEN KLMCodes[i] ELSE 32] : S \in SUBSET (1..8) } }

ProbeCallsign ==
    /\ probe.kind = "none"
    /\ \E field \in CallsignFields :
          probe' = [kind |-> "callsign", in |-> field, out |-> DecodeCallsign(field)]
    /\ UNCHANGED <<appVars, wireVars, render, conn, cycle>>

NextProbe == ProbeCallsign

SpecProbe == Init /\ [][NextProbe]_vars

\* the field decoders processModeS can call on a payload: DecodeCallsign on
\* data[5:11], DecodeAltitude and DecodeVelocity on the payload
DecodedFields(data) ==
    [ callsign |-> DecodeCallsign(SubSeq(data, 6, 11)),
      altitude |-> DecodeAltitude(data),
      velocity |-> DecodeVelocity(data) ]

\* 14-byte payloads of every type code the dispatch distinguishes; altitude
\* fields with the Q-bit set and clear
DecodePayloads ==
    { f.data : f \in TrackFrames }
    \cup { F_Ident(ICAO_B).data }
    \cup { PosPayload(DF17, ICAO_A, 11, ac12, odd, 93000, 51372) :
              ac12 \in { 0, 2, 16, 18, 212, 1560, 1562, 4095 } \cup { AC12Q(n) : n \in 0..7 },
              odd \in BOOLEAN }
    \cup { VelPayload(ICAO_A, st, ew, 301, ns, 301, vr, raw) :
              st \in {1, 3, 5}, ew \in {0, 1}, ns \in {0, 1}, vr \in {0, 1}, raw \in {0, 11} }

\* a payload is decoded
ProbeDecode ==
    /\ probe.kind = "none"
    /\ \E data \in DecodePayloads :
          probe' = [kind |-> "decode", in |-> data, at |-> now, n |-> 1,
                    out1 |-> DecodedFields(data), out2 |-> << >>]
    /\ UNCHANGED <<appVars, wireVars, render, conn, cycle>>

\* the same payload is decoded a second time, now or later
ProbeDecodeAgain ==
    /\ probe.kind = "decode"
    /\ probe.n = 1
    /\ probe' = [probe EXCEPT !.n = 2, !.out2 = DecodedFields(probe.in)]
    /\ UNCHANGED <<appVars, wireVars, render, conn, cycle>>

NextDecode == ProbeDecode \/ ProbeDecodeAgain \/ TickTrack

\* the field decoders applied twice to one payload while time passes
SpecDecode == Init /\ [][NextDecode]_vars

----------------------------------------------------------------------------
(* The zone count NL: the threshold function of the second adsb package     *)
(* (cprNLFunction, part_002) beside the table lookup of the live path, and  *)
(* the resolver applied to raw CPR values                                   *)

\* the thresholds of the second package's cprNLFunction, in source order:
\* <<whole degrees, fraction in 1e-8 degree, NL returned below the threshold>>
NLThresholds ==
    <<
       <<10, 47047130, 59>>, <<14, 82817437, 58>>, <<18, 18626357, 57>>, <<21, 2939493, 56>>,
       <<23, 54504487, 55>>, <<25, 82924707, 54>>, <<27, 93898710, 53>>, <<29, 91135686, 52>>,
       <<31, 77209708, 51>>, <<33, 53993436, 50>>, <<35, 22899598, 49>>, <<36, 85025108, 48>>,
       <<38, 41241892, 47>>, <<39, 92256684, 46>>, <<41, 38651832, 45>>, <<42, 80914012, 44>>,
       <<44, 19454951, 43>>, <<45, 54626723, 42>>, <<46, 86733252, 41>>, <<48, 16039128, 40>>,
       <<49, 42776439, 39>>, <<50, 67150166, 38>>, <<51, 89342469, 37>>, <<53, 9516153, 36>>,
       <<54, 27817472, 35>>, <<55, 44378444, 34>>, <<56, 59318756, 33>>, <<57, 72747354, 32>>,
       <<58, 84763776, 31>>, <<59, 95459277, 30>>, <<61, 4917774, 29>>, <<62, 13216659, 28>>,
       <<63, 20427479, 27>>, <<64, 26616523, 26>>, <<65, 31845310, 25>>, <<66, 36171008, 24>>,
       <<67, 39646774, 23>>, <<68, 42322022, 22>>, <<69, 44242631, 21>>, <<70, 45451075, 20>>,
       <<71, 45986473, 19>>, <<72, 45884545, 18>>, <<73, 45177442, 17>>, <<74, 43893416, 16>>,
       <<75, 42056257, 15>>, <<76, 39684391, 14>>, <<77, 36789461, 13>>, <<78, 33374083, 12>>,
       <<79, 29428225, 11>>, <<80, 24923213, 10>>, <<81, 19801349, 9>>, <<82, 13956981, 8>>,
       <<83, 7199445, 7>>, <<83, 99173563, 6>>, <<84, 89166191, 5>>, <<85, 75541621, 4>>,
       <<86, 53536998, 3>>, <<87, 0, 2>> >>

\* the chain of comparisons lat < threshold from the k-th on, for a latitude
\* a of whole degrees: a < w.f  iff  a < w, or a = w and f > 0
RECURSIVE NLScan(_, _)
NLScan(a, k) ==
    IF k > Len(NLThresholds) THEN 1
    ELSE IF a < NLThresholds[k][1] \/ (a = NLThresholds[k][1] /\ NLThresholds[k][2] > 0)
    THEN NLThresholds[k][3]
    ELSE NLScan(a, k + 1)

\* the second package's cprNLFunction on a latitude of whole degrees
cprNLThreshold(lat) == NLScan(Abs(lat), 1)

\* raw 17-bit CPR values: the ends of the range, the eighths of it, and the
\* values of the position frames
RawValues ==
    { 0, 1, 16384, 32768, 49152, 65536, 81920, 98304, 114688, 131071, 93000, 74158 }

\* DecodeCPRPosition is applied to a pair of raw reports
ProbeCPR ==
    /\ probe.kind = "none"
    /\ \E evenLat \in RawValues, oddLat \in RawValues, evenLon \in { 0, 51372, 50194, 131071 },
          oddLon \in { 0, 51372, 50194, 131071 }, lastOdd \in BOOLEAN :
          probe' = [kind |-> "cpr",
                    in |-> [evenLat |-> evenLat, evenLon |-> evenLon, oddLat |-> oddLat,
                            oddLon |-> oddLon, lastOdd |-> lastOdd],
                    out |-> DecodeCPRPosition(evenLat, evenLon, oddLat, oddLon, lastOdd)]
    /\ UNCHANGED <<appVars, wireVars, render, conn, cycle>>

\* both zone-count functions are applied to a latitude of whole degrees
ProbeNL ==
    /\ probe.kind = "none"
    /\ \E lat \in -90..90 :
          probe' = [kind |-> "nl", in |-> lat,
                    table |-> cprNLFunction(Rat(lat, 1)),
                    threshold |-> cprNLThreshold(lat)]
    /\ UNCHANGED <<appVars, wireVars, render, conn, cycle>>

NextZone == ProbeCPR \/ ProbeNL

\* the resolver and the zone-count functions on bounded inputs
SpecZone == Init /\ [][NextZone]_vars

----------------------------------------------------------------------------
(* The trail under every configured length (--traillen, main.go line 30)    *)

MaxTrailLength == 3
MaxTrailAdds == 4

\* flag.Parse has stored the configured length; a new track's trail is empty
ProbeTrailLength ==
    /\ probe.kind = "none"
    /\ \E n \in 0..MaxTrailLength :
          probe' = [kind |-> "trail", n |-> n, trail |-> << >>, adds |-> 0, panic |-> FALSE]
    /\ UNCHANGED <<appVars, wireVars, render, conn, cycle>>

\* a resolved position is added to the trail
ProbeTrailAdd ==
    /\ probe.kind = "trail"
    /\ ~probe.panic
    /\ probe.adds < MaxTrailAdds
    /\ \E lat \in {50, 51, 52} :
          probe' = IF TrailPanics(probe.trail, probe.n)
                   THEN [probe EXCEPT !.panic = TRUE]
                   ELSE [probe EXCEPT
                           !.adds = @ + 1,
                           !.trail = TrailUpdate(@, [Lat |-> Rat(lat, 1), Lon |-> Rat(4, 1),
                                                     Altitude |-> 0, Heading |-> 0,
                                                     Timestamp |-> probe.adds + 1],
                                                 probe.n)]
    /\ UNCHANGED <<appVars, wireVars, render, conn, cycle>>

NextTrail == ProbeTrailLength \/ ProbeTrailAdd

SpecTrail == Init /\ [][NextTrail]_vars

----------------------------------------------------------------------------
(* The render loop against the receiver: processModeS writes the fields of  *)
(* the track one assignment at a time and holds no lock while it does;      *)
(* App.Run hands AircraftMap.Copy() to RenderFrame, which reads the tracks  *)
(* through the pointers of the copy                                         *)

MaxSnapFrames == 3

SnapFrames == { F_Odd(ICAO_A), F_Even(ICAO_A) }

\* what RenderFrame reads of a track's position: calculateScreenPositions
\* reads Lat, then Lon; drawTrails reads Trail
View(ac) == [Lat |-> ac.Lat, Lon |-> ac.Lon, Trail |-> ac.Trail]

\* the assignments of processModeS in program order: the fields set before
\* the resolver is called (lines 165-192) or by the velocity branch (lines
\* 221-226), then lines 200, 201, 202, 204-215, and the tail 231-233
WriteOrder ==
    << {"Flight", "Altitude", "EvenCPRLat", "EvenCPRLon", "EvenCPRTime",
        "OddCPRLat", "OddCPRLon", "OddCPRTime", "Speed", "Heading", "VertRate"},
       {"Lat"}, {"Lon"}, {"SeenLatLon"}, {"Trail"},
       {"Seen", "SignalLevel", "Messages"} >>

\* the track ac after the assignments of group k, towards the updated track to
WriteFields(ac, to, k) ==
    [fld \in DOMAIN ac |-> IF fld \in WriteOrder[k] THEN to[fld] ELSE ac[fld]]

\* the update u that processModeS is carrying out on track icao
WriteTarget(icao) ==
    IF render.w = 0 THEN UpdateAircraft(store[icao], rx.frame.data, now) ELSE render.to

\* one group of assignments of processModeS reaches the track
WriteStep(icao, u, k) ==
    /\ store' = [store EXCEPT ![icao] = WriteFields(@, u.ac, k)]
    /\ IF k < Len(WriteOrder)
       THEN /\ render' = [render EXCEPT !.w = k, !.to = u,
                             !.seen[icao] = @ \cup {View(store[icao])}]
            /\ UNCHANGED <<rx, hist, stats>>
       ELSE /\ render' = [render EXCEPT !.w = 0, !.to = << >>,
                             !.seen[icao] = @ \cup {View(store'[icao])}]
            /\ rx' = RxIdle(rx.frame, u.res, TRUE)
            /\ hist' = IF u.res.ok
                       THEN [hist EXCEPT ![icao] = Append(@, [Lat |-> u.res.lat,
                                                   Lon |-> u.res.lon, Timestamp |-> now])]
                       ELSE hist
            /\ stats' = CountMessage(stats)

\* processModeS lines 160-238, one group of assignments per step
RxWriteNext ==
    /\ rx.pc = "got"
    /\ WriteStep(IcaoOf(rx.frame.data), WriteTarget(IcaoOf(rx.frame.data)), render.w + 1)
    /\ UNCHANGED <<now, lastCleanup, nrx, lastRx, wireVars, probe, conn, cycle>>

\* App.Run lines 335-336 and AircraftMap.Copy: the keys and the pointers are
\* copied, the Aircraft structs are not
Copy ==
    /\ render.pc = "idle"
    /\ store # EmptyStore
    /\ render' = [render EXCEPT !.pc = "lat", !.snap = DOMAIN store, !.obs = << >>]
    /\ UNCHANGED <<appVars, wireVars, probe, conn, cycle>>

\* RenderFrame reads one field of the track through the pointer of the copy
RenderRead(from, fld, to) ==
    /\ render.pc = from
    /\ \E i \in render.snap :
          render' = [render EXCEPT !.pc = to,
                        !.obs = IF fld = "Lat" THEN [icao |-> i, Lat |-> store[i].Lat]
                                ELSE [f \in DOMAIN @ \cup {fld} |->
                                        IF f = fld THEN store[render.obs.icao][fld] ELSE @[f]]]
    /\ UNCHANGED <<appVars, wireVars, probe, conn, cycle>>

\* the frame is presented; the next iteration takes a new copy
RenderDone ==
    /\ render.pc = "drawn"
    /\ render' = [render EXCEPT !.pc = "idle", !.snap = {}]
    /\ UNCHANGED <<appVars, wireVars, probe, conn, cycle>>

\* calculateScreenPositions reads Lat, then Lon; drawTrails reads Trail
NextSnapshot ==
    \/ \E f \in SnapFrames : RxReceive(f, MaxSnapFrames)
    \/ RxWriteNext
    \/ Copy
    \/ RenderRead("lat", "Lat", "lon")
    \/ RenderRead("lon", "Lon", "trail")
    \/ RenderRead("trail", "Trail", "drawn")
    \/ RenderDone

\* the receiver and the render loop on one track
SpecSnapshot == Init /\ [][NextSnapshot]_vars

----------------------------------------------------------------------------
(* The Beast connection: App.Run's connection ticker, the connectToBeast    *)
(* goroutines it starts, the receiveBeastData goroutine each successful     *)
(* attempt starts, and App.Cleanup.  isConnected, beastConn and running are *)
(* read and written without synchronisation, one access per step.           *)

ConnUnchanged == UNCHANGED <<appVars, wireVars, probe, render, cycle>>

\* goroutine k moves to pc
Goto(c, k, pc) == [c EXCEPT !.g[k].pc = pc]

\* net.Conn.Close on connection id (nil: nothing to close), and beastConn = nil
CloseBeastConn(c) ==
    IF c.beastConn # 0
    THEN [c EXCEPT !.open[c.beastConn] = "closed", !.beastConn = 0]
    ELSE c

\* App.Run line 290
Run ==
    /\ ~conn.running /\ ~conn.stopped
    /\ conn' = [conn EXCEPT !.running = TRUE]
    /\ ConnUnchanged

\* App.Run lines 325-329: the connection ticker fired
ConnectionTick ==
    /\ conn.running
    /\ ~conn.isConnected
    /\ \E k \in Attempts :
          /\ conn.g[k].pc = "off"
          /\ \A j \in Attempts : j < k => conn.g[j].pc # "off"
          /\ conn' = Goto(conn, k, "begin")
    /\ ConnUnchanged

\* connectToBeast lines 80-82
ConnectCheck(k) ==
    /\ conn.g[k].pc = "begin"
    /\ conn' = Goto(conn, k, IF conn.isConnected THEN "end" ELSE "dial")
    /\ ConnUnchanged

\* connectToBeast lines 85-91: DialTimeout succeeds or fails
Dial(k) ==
    /\ conn.g[k].pc = "dial"
    /\ \/ conn' = [Goto(conn, k, "dialed") EXCEPT !.open[k] = "open"]
       \/ conn' = [Goto(conn, k, "end") EXCEPT !.isConnected = FALSE]
    /\ ConnUnchanged

\* connectToBeast line 93
SetBeastConn(k) ==
    /\ conn.g[k].pc = "dialed"
    /\ conn' = [Goto(conn, k, "assigned") EXCEPT !.beastConn = k]
    /\ ConnUnchanged

\* connectToBeast lines 94-97: isConnected = true; go receiveBeastData()
StartReceiver(k) ==
    /\ conn.g[k].pc = "assigned"
    /\ conn' = [Goto(conn, k, "spawned") EXCEPT !.isConnected = TRUE]
    /\ ConnUnchanged

\* receiveBeastData line 103: the decoder reads whatever beastConn holds now
NewDecoder(k) ==
    /\ conn.g[k].pc = "spawned"
    /\ conn' = [Goto(conn, k, "loop") EXCEPT !.g[k].d = conn.beastConn]
    /\ ConnUnchanged

\* receiveBeastData line 105
LoopTest(k) ==
    /\ conn.g[k].pc = "loop"
    /\ conn' = Goto(conn, k, IF conn.running THEN "read" ELSE "end")
    /\ ConnUnchanged

\* ReadMessage delivers a message: the connection is open and its stream intact
ReadMessage(k) ==
    /\ conn.g[k].pc = "read"
    /\ conn.g[k].d # 0
    /\ conn.open[conn.g[k].d] = "open"
    /\ conn.g[k].d \notin conn.failed
    /\ conn.g[k].got < MaxConnMsgs
    /\ conn' = [Goto(conn, k, "apply") EXCEPT !.g[k].got = @ + 1]
    /\ ConnUnchanged

\* receiveBeastData lines 124-127: processModeS returns
ApplyMessage(k) ==
    /\ conn.g[k].pc = "apply"
    /\ conn' = [Goto(conn, k, "loop") EXCEPT !.g[k].applied = @ + 1]
    /\ ConnUnchanged

\* ReadMessage returns an error: the connection was closed, or the stream
\* failed or ended inside a frame; a decoder over a nil connection cannot read
ReadError(k) ==
    /\ conn.g[k].pc = "read"
    /\ \/ conn.g[k].d = 0
       \/ conn.g[k].d # 0 /\ conn.open[conn.g[k].d] = "closed"
       \/ conn.g[k].d \in conn.failed
    /\ conn' = Goto(conn, k, "err")
    /\ ConnUnchanged

\* receiveBeastData lines 109-111 and 121
ErrorTest(k) ==
    /\ conn.g[k].pc = "err"
    /\ conn' = IF conn.running
               THEN [Goto(conn, k, "close") EXCEPT !.isConnected = FALSE]
               ELSE Goto(conn, k, "end")
    /\ ConnUnchanged

\* receiveBeastData lines 114-119
ErrorClose(k) ==
    /\ conn.g[k].pc = "close"
    /\ conn' = Goto(CloseBeastConn(conn), k, "end")
    /\ ConnUnchanged

\* the peer ends the stream of an open connection, or an I/O error occurs
StreamFail ==
    /\ \E c \in Attempts :
          /\ conn.open[c] = "open"
          /\ c \notin conn.failed
          /\ conn' = [conn EXCEPT !.failed = @ \cup {c}]
    /\ ConnUnchanged

\* App.Cleanup lines 353-358
Cleanup ==
    /\ conn.running
    /\ conn' = [CloseBeastConn(conn) EXCEPT !.running = FALSE, !.stopped = TRUE]
    /\ ConnUnchanged

Connect == \E k \in Attempts : ConnectCheck(k) \/ Dial(k) \/ SetBeastConn(k) \/ StartReceiver(k)

receiveBeastData ==
    \E k \in Attempts :
        \/ NewDecoder(k) \/ LoopTest(k) \/ ReadMessage(k) \/ ApplyMessage(k)
        \/ ReadError(k) \/ ErrorTest(k) \/ ErrorClose(k)

NextConn == Run \/ ConnectionTick \/ Connect \/ receiveBeastData \/ StreamFail \/ Cleanup

\* connection handling: up to MaxAttempts connection attempts
SpecConn == Init /\ [][NextConn]_vars

----------------------------------------------------------------------------
(* Properties *)

TypeCode(f) == f.data[5] \div 8

\* a long Mode-S frame whose downlink format is 17 or 18
IsExtendedSquitter(f) == f.kind = ModeLong /\ (f.data[1] \div 8) \in {DF17, DF18}

IsAirbornePosition(f) == IsExtendedSquitter(f) /\ TypeCode(f) \in 9..18

\* the receiver has just finished applying frame f to the track in the store
Applied(f) == rx.pc = "idle" /\ rx.frame = f /\ rx.hit

\* the last n entries of s, or all of s when it is shorter
LastN(s, n) == SubSeq(s, (IF Len(s) > n THEN Len(s) - n ELSE 0) + 1, Len(s))

TrailKeys(trail) ==
    [k \in 1..Len(trail) |->
        [Lat |-> trail[k].Lat, Lon |-> trail[k].Lon, Timestamp |-> trail[k].Timestamp]]

\* C1: a frame written by encodeBeastMessage and read back by the frame decoder
\* is delivered exactly once and equal to the original (kind, timestamp, signal
\* level, payload), also when any of its bytes is the escape byte; the decoder
\* reports no framing error on it
C1_FrameRoundTrip ==
    /\ dec.state # "error"
    /\ dec.state \in {"sync", "kind", "body", "esc"} => dec.out \in {<< >>, << sent >>}
    /\ dec.state = "eof" => dec.out = << sent >>

C1_Witness ==
    /\ dec.state = "eof"
    /\ dec.out = << sent >>
    /\ sent.kind = ModeLong
    /\ sent.ts.hi = 1710618
    /\ sent.sig = EscapeChar
    /\ sent.data[1] = EscapeChar
    /\ sent.data[14] = EscapeChar

\* C2 (as claimed): when the even report (93000, 51372) is applied while the odd
\* report (74158, 50194) is stored within the 10-second window, the position
\* resolved by DecodeCPRPosition is within 0.001 degrees of 52.25713, 3.91937
C2_CanonicalPosition ==
    ( /\ Applied(F_Even(ICAO_A))
      /\ store[ICAO_A].OddCPRLat = 74158
      /\ store[ICAO_A].OddCPRLon = 50194
      /\ store[ICAO_A].OddCPRTime > 0
      /\ Abs(store[ICAO_A].EvenCPRTime - store[ICAO_A].OddCPRTime) <= CPRWindowMs )
    => /\ rx.res.ok
       /\ Abs(Deg5(rx.res.lat) - 5225713) <= 100
       /\ Abs(Deg5(rx.res.lon) - 391937) <= 100

\* C3: a position message processed while the stored even and odd reception
\* times differ by more than 10 seconds resolves nothing: the track's lat, lon,
\* last_position_seen and trail are as before the message
C3_CPRRejection ==
    [][ (rx.pc = "got" /\ rx'.pc = "idle" /\ rx'.hit /\ IsAirbornePosition(rx.frame))
        => LET i == IcaoOf(rx.frame.data)
           IN  Abs(store'[i].EvenCPRTime - store'[i].OddCPRTime) > CPRWindowMs
               => /\ ~rx'.res.ok
                  /\ store'[i].Lat = store[i].Lat
                  /\ store'[i].Lon = store[i].Lon
                  /\ store'[i].SeenLatLon = store[i].SeenLatLon
                  /\ store'[i].Trail = store[i].Trail ]_vars

C3_Witness ==
    /\ Applied(F_Even(ICAO_A))
    /\ store[ICAO_A].OddCPRLat = 74158
    /\ store[ICAO_A].OddCPRTime > 0
    /\ store[ICAO_A].EvenCPRTime - store[ICAO_A].OddCPRTime = 11000
    /\ store[ICAO_A].SeenLatLon > 0
    /\ store[ICAO_A].SeenLatLon < now
    /\ Len(store[ICAO_A].Trail) = 1

\* C4: a track's trail never holds more than TrailLength entries, and it is
\* always the most recent min(TrailLength, number resolved) resolved positions
\* of the track in arrival order, newest last
C4_TrailBound ==
    \A i \in DOMAIN store :
        /\ Len(store[i].Trail) <= TrailLength
        /\ TrailKeys(store[i].Trail) = LastN(hist[i], TrailLength)

C4_Witness ==
    /\ ICAO_A \in DOMAIN store
    /\ Len(hist[ICAO_A]) > TrailLength
    /\ Len(store[ICAO_A].Trail) = TrailLength
    /\ hist[ICAO_A][1].Lat # hist[ICAO_A][2].Lat

\* C5: a sweep removes exactly the tracks whose last_seen was more than the TTL
\* before the sweep; every other track stays in the store with all fields
\* unchanged, and the sweep adds nothing
C5_Eviction ==
    [][ lastCleanup' # lastCleanup
        => /\ DOMAIN store' \subseteq DOMAIN store
           /\ \A i \in DOMAIN store :
                 IF now - store[i].Seen > DisplayTTL
                 THEN i \notin DOMAIN store'
                 ELSE i \in DOMAIN store' /\ store'[i] = store[i] ]_vars

C5_Witness ==
    /\ lastCleanup = now
    /\ rx.pc = "idle"
    /\ ICAO_A \notin DOMAIN store
    /\ lastRx[ICAO_A] > 0
    /\ now - lastRx[ICAO_A] > DisplayTTL
    /\ ICAO_B \in DOMAIN store
    /\ store[ICAO_B].Messages > 0
    /\ now - store[ICAO_B].Seen > 0

\* C6 (as claimed): in every state a track is in the store if and only if its
\* aircraft received a message within the TTL (now - last_seen <= TTL)
C6_PresentIffWithinTTL ==
    \A i \in ICAOs :
        /\ i \in DOMAIN store => now - store[i].Seen <= DisplayTTL
        /\ (lastRx[i] > 0 /\ now - lastRx[i] <= DisplayTTL) => i \in DOMAIN store

\* C6 (amended): every track in the store was within the TTL when the store was
\* last swept (or the app constructed): lastCleanup - last_seen <= TTL; between
\* sweeps a track older than the TTL stays in the store
C6_PresentWithinTTLAtSweep ==
    \A i \in DOMAIN store : lastCleanup - store[i].Seen <= DisplayTTL

C6_Witness ==
    /\ lastCleanup > 1
    /\ \E i \in DOMAIN store :
          /\ now - store[i].Seen > DisplayTTL
          /\ store[i].Messages > 0
\* bit k (0 = first bit of the first byte) of an identification field
FieldBit(field, k) == (field[(k \div 8) + 1] \div Pow2(7 - (k % 8))) % 2

\* the n-th (1..8) successive 6-bit group of the field
SixBitGroup(field, n) ==
    LET b(j) == FieldBit(field, 6 * (n - 1) + j)
    IN  32 * b(0) + 16 * b(1) + 8 * b(2) + 4 * b(3) + 2 * b(4) + b(5)

FieldChars(field) == [n \in 1..8 |-> Charset[SixBitGroup(field, n) + 1]]

\* the longest prefix of cs that does not end in a space
TrimRight(cs) ==
    LET keep == {n \in 0..Len(cs) : n = 0 \/ cs[n] # " "}
        last == CHOOSE n \in keep : \A m \in keep : m <= n
    IN  SubSeq(cs, 1, last)

KLMField == PackChars(KLMCodes)

BlankField == PackChars([i \in 1..8 |-> 32])

\* C7: the decoded flight identifier is the field's eight 6-bit groups mapped
\* through the ICAO character set, with all trailing spaces removed; the field
\* of "KLM1023 " gives "KLM1023" and a field of eight spaces gives the empty text
C7_CallsignDecode ==
    probe.kind = "callsign"
    => /\ probe.out = TrimRight(FieldChars(probe.in))
       /\ probe.in = KLMField => probe.out = << "K", "L", "M", "1", "0", "2", "3" >>
       /\ probe.in = BlankField => probe.out = << >>

C7_Witness ==
    /\ probe.kind = "callsign"
    /\ probe.in = KLMField
    /\ probe.out = << "K", "L", "M", "1", "0", "2", "3" >>

\* the 12-bit altitude field of a payload: byte 5, then the top four bits of byte 6
AC12Field(f) == f.data[6] * 16 + (f.data[7] \div 16)

QBitSet(f) == (AC12Field(f) \div 16) % 2 = 1

\* the 11-bit value of the altitude field with the Q-bit removed
AltitudeN(f) == (AC12Field(f) \div 32) * 16 + (AC12Field(f) % 16)

\* C8 (as claimed): after an airborne-position message whose altitude field has
\* the Q-bit set has been applied, the track's altitude is N * 25 - 1000 feet
C8_AltitudeApplied ==
    \A f \in TrackFrames :
        (Applied(f) /\ IsAirbornePosition(f) /\ QBitSet(f))
        => store[IcaoOf(f.data)].Altitude = AltitudeN(f) * 25 - 1000

\* C9: a step of the receiver changes the store or the statistics accumulators
\* only for a long frame with downlink format 17 or 18; any other frame is
\* dropped with the store and the statistics unchanged, and the receiver is
\* ready for the next frame
C9_Filtering ==
    [][ /\ (nrx' = nrx + 1 /\ ~IsExtendedSquitter(rx'.frame))
           => (store' = store /\ stats' = stats /\ rx'.pc = "idle")
        /\ ((nrx' = nrx + 1 \/ (rx.pc = "got" /\ rx'.pc = "idle"))
             /\ (store' # store \/ stats' # stats))
           => IsExtendedSquitter(rx'.frame) ]_vars

C9_Witness ==
    /\ rx.pc = "idle"
    /\ rx.frame = F_DF20(ICAO_A)
    /\ ICAO_A \notin DOMAIN store
    /\ ICAO_B \in DOMAIN store
    /\ store[ICAO_B].Messages > 0

\* C10: GetOrCreate inserts one all-zero track with an empty trail under an
\* absent ICAO, returns a present track unchanged, and leaves every other entry
\* untouched; every track is always stored under the key equal to its own ICAO
C10_GetOrCreate ==
    /\ [](\A i \in DOMAIN store : store[i].ICAO = i)
    /\ [][ (rx.pc = "idle" /\ rx'.pc = "got")
           => LET i == IcaoOf(rx'.frame.data)
              IN  /\ DOMAIN store' = DOMAIN store \cup {i}
                  /\ \A j \in DOMAIN store : store'[j] = store[j]
                  /\ i \notin DOMAIN store
                     => /\ store'[i].ICAO = i
                        /\ store'[i].Flight = << >>
                        /\ store'[i].Altitude = 0
                        /\ store'[i].Speed = 0
                        /\ store'[i].Heading = 0
                        /\ store'[i].VertRate = 0
                        /\ RatIsZero(store'[i].Lat)
                        /\ RatIsZero(store'[i].Lon)
                        /\ store'[i].SeenLatLon = 0
                        /\ store'[i].Messages = 0
                        /\ store'[i].Trail = << >> ]_vars

C10_Witness ==
    /\ rx.pc = "got"
    /\ rx.orphan = << >>
    /\ store[IcaoOf(rx.frame.data)].Messages > 0
    /\ store[IcaoOf(rx.frame.data)].Flight # << >>
    /\ DOMAIN store = ICAOs
\* the receiver completes processModeS for the frame it holds, on the track in the store
AppliesFrame == rx.pc = "got" /\ rx'.pc = "idle" /\ rx'.hit

\* C11: a velocity message (type code 19) leaves every field of its track as it
\* was, except speed, heading, vertical rate, last_seen, the signal ring and
\* the message counter
C11_VelocityPartialUpdate ==
    [][ (AppliesFrame /\ IsExtendedSquitter(rx.frame) /\ TypeCode(rx.frame) = 19)
        => LET i == IcaoOf(rx.frame.data)
           IN  [store'[i] EXCEPT !.Speed = store[i].Speed,
                                 !.Heading = store[i].Heading,
                                 !.VertRate = store[i].VertRate,
                                 !.Seen = store[i].Seen,
                                 !.SignalLevel = store[i].SignalLevel,
                                 !.Messages = store[i].Messages] = store[i] ]_vars

C11_Witness ==
    /\ Applied(F_Vel(ICAO_A))
    /\ store[ICAO_A].Speed = 424
    /\ store[ICAO_A].Heading = 45
    /\ store[ICAO_A].VertRate = -640
    /\ Len(store[ICAO_A].Trail) >= 1
    /\ ~RatIsZero(store[ICAO_A].Lat)
    /\ store[ICAO_A].Flight # << >>

\* lat, lon, last_position_seen and trail of a track
PositionFields(ac) == << ac.Lat, ac.Lon, ac.SeenLatLon, ac.Trail >>

\* the 17-bit raw CPR latitude and longitude and the parity flag of a position
\* payload (bytes 6 to 10)
RawLat(f) == (f.data[7] % 4) * 32768 + f.data[8] * 128 + (f.data[9] \div 2)
RawLon(f) == (f.data[9] % 2) * 65536 + f.data[10] * 256 + f.data[11]
IsOdd(f) == (f.data[7] \div 4) % 2 = 1

\* the raw CPR values and reception time stored for the parity of frame f
OwnParity(ac, f) ==
    IF IsOdd(f) THEN << ac.OddCPRLat, ac.OddCPRLon, ac.OddCPRTime >>
    ELSE << ac.EvenCPRLat, ac.EvenCPRLon, ac.EvenCPRTime >>

\* C12: lat, lon, last_position_seen and trail of a track change only in a step
\* in which the resolver returned a resolved position for that track; a position
\* message that resolves nothing leaves them unchanged and still stores its raw
\* CPR values and reception time under its own parity
C12_PositionOnlyWhenResolved ==
    [][ /\ \A i \in DOMAIN store \cap DOMAIN store' :
              PositionFields(store'[i]) # PositionFields(store[i])
              => (AppliesFrame /\ IcaoOf(rx.frame.data) = i /\ rx'.res.ok)
        /\ (AppliesFrame /\ IsAirbornePosition(rx.frame) /\ ~rx'.res.ok)
           => LET i == IcaoOf(rx.frame.data)
              IN  /\ PositionFields(store'[i]) = PositionFields(store[i])
                  /\ OwnParity(store'[i], rx.frame)
                       = << RawLat(rx.frame), RawLon(rx.frame), now * 1000 >> ]_vars

\* the zone check failed: the pair was stored within the window, nothing resolved
C12_Witness ==
    /\ Applied(F_EvenZone(ICAO_A))
    /\ rx.res.called
    /\ ~rx.res.ok
    /\ store[ICAO_A].EvenCPRLat = 98304
    /\ store[ICAO_A].OddCPRLat = 74158
    /\ Len(store[ICAO_A].Trail) = 1
    /\ store[ICAO_A].SeenLatLon > 0
\* the values the position fields of track i had between two messages, up to now
BetweenMessages(i) ==
    render.seen[i] \cup (IF render.w = 0 /\ i \in DOMAIN store THEN {View(store[i])} ELSE {})

\* C13: a frame rendered from a snapshot of the store shows each track as it
\* was between two messages, never part-way through an update (the new lat
\* with the old lon, a new position without its trail entry)
C13_SnapshotConsistency ==
    render.pc = "drawn"
    => [Lat |-> render.obs.Lat, Lon |-> render.obs.Lon, Trail |-> render.obs.Trail]
          \in BetweenMessages(render.obs.icao)
\* receiver k leaves receiveBeastData through the error branch taken while running
LeavesOnError(k) == conn.g[k].pc = "close" /\ conn'.g[k].pc = "end"

\* C14: when the decoder reports an error while the app is running, the
\* receiver applies nothing more, and when it returns the connection it read
\* from is closed and the app is marked disconnected, so that the next
\* connection tick starts a new attempt
C14_FramingError ==
    [][ \A k \in Attempts :
           LeavesOnError(k)
           => /\ conn'.g[k].applied = conn.g[k].got
              /\ conn'.open[conn.g[k].d] = "closed"
              /\ ~conn'.isConnected ]_vars

\* C15: once Cleanup has run, no receiver stays blocked in a read (the
\* connection it reads is closed, so the read returns and the loop ends), and
\* a receiver that has ended applied every message it decoded exactly once
C15_Cancellation ==
    \A k \in Attempts :
        /\ (conn.stopped /\ conn.g[k].pc = "read")
           => (conn.g[k].d = 0 \/ conn.open[conn.g[k].d] = "closed")
        /\ conn.g[k].pc = "end" => conn.g[k].applied = conn.g[k].got
C17_TruncatedPayload ==
    /\ rx.pc # "panic"
    /\ (rx.pc = "idle" /\ Accepted(rx.frame))
       => /\ IcaoOf(rx.frame.data) \in DOMAIN store
          /\ store[IcaoOf(rx.frame.data)].Seen = now

\* C18: an airborne-position message whose altitude field has the Q-bit clear
\* decodes to altitude 0 and leaves the stored altitude unchanged
C18_GillhamAltitude ==
    [][ (AppliesFrame /\ Len(rx.frame.data) = 14 /\ IsAirbornePosition(rx.frame)
         /\ ~QBitSet(rx.frame))
        => /\ DecodeAltitude(rx.frame.data) = 0
           /\ store'[IcaoOf(rx.frame.data)].Altitude
                = store[IcaoOf(rx.frame.data)].Altitude ]_vars

\* C19: after the k-th message of a track has been applied, slot (k - 1) mod 8
\* of its ring holds the signal level carried by that message's frame, the
\* counter is k and the other seven slots are unchanged
C19_SignalRing ==
    [][ AppliesFrame
        => LET i == IcaoOf(rx.frame.data)
               k == store'[i].Messages
           IN  /\ k = store[i].Messages + 1
               /\ store'[i].SignalLevel[(k - 1) % 8] = rx.frame.sig
               /\ \A j \in 0..7 :
                     j # (k - 1) % 8 => store'[i].SignalLevel[j] = store[i].SignalLevel[j] ]_vars
\* track i is in the store and older than the TTL
Stale(i) == i \in DOMAIN store /\ now - store[i].Seen > DisplayTTL

\* C20: tracks are removed, and lastCleanup moves, only in a step of the
\* periodic cleanup check, never in a step of the receiver; a sweep takes place
\* at least one second after the previous one; and a track older than the TTL
\* is eventually removed by a sweep unless a further message refreshes it
C20_EvictionCadence ==
    /\ [][ (lastCleanup' # lastCleanup \/ \E i \in DOMAIN store : i \notin DOMAIN store')
           => /\ nrx' = nrx
              /\ rx'.pc = rx.pc
              /\ now - lastCleanup >= CleanupIntervalS
              /\ lastCleanup' = now ]_vars
    /\ \A i \in ICAOs : Stale(i) ~> ~Stale(i)

\* the receiver holds a frame for a second aircraft when the sweep removes the
\* stale track of the first
C20_Witness ==
    /\ rx.pc = "got"
    /\ IcaoOf(rx.frame.data) = ICAO_B
    /\ ICAO_B \in DOMAIN store
    /\ ICAO_A \notin DOMAIN store
    /\ lastRx[ICAO_A] > 0
    /\ now - lastRx[ICAO_A] > DisplayTTL
    /\ lastCleanup = now
\* C21: every message applied is counted in exactly one cycle's reported rate:
\* whenever neither thread is inside the accumulator code, the rates reported
\* so far plus the count still in the accumulator equal the messages applied
C21_StatisticsCycle ==
    (cycle.rpc = "idle" /\ cycle.mpc = "idle")
    => cycle.reported + stats.msgRateAcc = cycle.counted
\* C22: whatever the raw latitudes and longitudes and whichever report is the
\* more recent, a position the resolver reports as resolved has its latitude
\* within [-90, 90]
C22_LatitudeRange ==
    (probe.kind = "cpr" /\ probe.out.ok)
    => (~RatLt(probe.out.lat, -90) /\ ~RatGt(probe.out.lat, 90))

\* a pair resolved in the southern hemisphere (global latitude wrapped from
\* above 270 degrees)
C22_Witness ==
    /\ probe.kind = "cpr"
    /\ probe.out.ok
    /\ RatLt(probe.out.lat, 0)
    /\ ~RatLt(probe.out.lat, -90)

\* C23: for every whole-degree latitude from -90 to 90 the table lookup gives
\* the zone count of the threshold function; it is 59 at the equator
C23_NLTable ==
    probe.kind = "nl"
    => /\ probe.table = probe.threshold
       /\ probe.in = 0 => probe.table = 59
\* C24: a DF17/18 message with type code 5-8 or 20-22 stores its raw CPR
\* latitude and longitude and its reception time under its parity, as a type
\* code 9-18 message does, and type codes 5-8 set the on-ground flag
C24_PositionTypeCodes ==
    [][ (AppliesFrame /\ IsExtendedSquitter(rx.frame)
         /\ TypeCode(rx.frame) \in (5..8) \cup (20..22))
        => LET i == IcaoOf(rx.frame.data)
           IN  /\ OwnParity(store'[i], rx.frame)
                    = << RawLat(rx.frame), RawLon(rx.frame), now * 1000 >>
               /\ TypeCode(rx.frame) \in 5..8 => store'[i].OnGround ]_vars

\* C26: when processModeS returns, the store maps the message's ICAO to the
\* track object that was updated, with last_seen set by that message
C26_NoUpdateToEvicted ==
    [][ (rx.pc = "got" /\ rx'.pc = "idle")
        => /\ rx'.hit
           /\ IcaoOf(rx.frame.data) \in DOMAIN store'
           /\ store'[IcaoOf(rx.frame.data)].Seen = now ]_vars

\* receiver k has been started and has not returned
ReceiverActive(k) == conn.g[k].pc \in {"spawned", "loop", "read", "apply", "err", "close"}

\* C27: at any time at most one receiver goroutine is active and at most one
\* connection is open
C27_SingleReceiver ==
    /\ Cardinality({k \in Attempts : ReceiverActive(k)}) <= 1
    /\ Cardinality({c \in Attempts : conn.open[c] = "open"}) <= 1

\* C28: a receiver that hits a read error closes only the connection it was
\* reading from
C28_CloseOwnConnection ==
    [][ \A k \in Attempts :
           LeavesOnError(k)
           => \A c \in Attempts : conn'.open[c] # conn.open[c] => c = conn.g[k].d ]_vars
\* C25: after updateStatistics the total count is the number of tracks and
\* the position-bearing count is the number of tracks whose last_position_seen
\* is non-zero
C25_StatusCounts ==
    [][ (rx'.pc = rx.pc /\ now' = now)
        => /\ stats'.numPlanes = Cardinality(DOMAIN store')
           /\ stats'.numVisiblePlanes
                = Cardinality({i \in DOMAIN store' : store'[i].SeenLatLon # 0}) ]_vars
\* C29: for every configured trail length n >= 0, adding a resolved position
\* completes without a runtime failure and leaves at most n entries
C29_TrailTotal ==
    probe.kind = "trail" => (~probe.panic /\ Len(probe.trail) <= probe.n)
\* C30: in every reachable state a track's trail is non-empty exactly when its
\* last_position_seen is non-zero, and the newest trail entry carries the
\* track's current latitude and longitude
C30_TrailAgreement ==
    \A i \in DOMAIN store :
        /\ (store[i].Trail # << >>) <=> (store[i].SeenLatLon # 0)
        /\ store[i].Trail # << >>
             => /\ store[i].Trail[Len(store[i].Trail)].Lat = store[i].Lat
                /\ store[i].Trail[Len(store[i].Trail)].Lon = store[i].Lon
====
